---------------------------- MODULE Spec2Model ----------------------------
(***************************************************************************)
(* A model of three of the command-line tools of unix-clis-2-rust:         *)
(*   uniqr  (src/uniqr/src/main.rs)  collapse consecutive duplicate lines  *)
(*   wcr    (src/wcr/src/main.rs)    count lines, words, bytes, characters *)
(*   grepr  (src/grepr/src/main.rs)  select the lines a pattern matches    *)
(* Text is a sequence of characters, each a string.  A stream of bytes is  *)
(* the sequence of its characters; the one byte sequence that is not       *)
(* valid UTF-8 is the character Invalid, on which read_line fails.         *)
(* Each tool has its own variables (u_, w_, g_) and its own specification  *)
(* (SpecUniq, SpecWc, SpecGrep); the tools never interact.                 *)
(***************************************************************************)
EXTENDS Naturals, Sequences, FiniteSets

----------------------------------------------------------------------------
(* Bounds of the model *)

\* longest input stream of uniqr, in characters
MaxULen == 6

\* longest content of the one file of a single-file run of wcr
MaxWLen == 5

\* most sources on a command line of wcr
MaxWFiles == 4

\* longest content of the one file of a single-file run of grepr
MaxGLen == 5

\* most paths on a command line of grepr
MaxGFiles == 2

----------------------------------------------------------------------------
(* Characters and strings *)

\* a byte sequence that is not valid UTF-8
Invalid == "0xFF"

\* a character of two bytes in UTF-8 (U+00E9)
EAcute == "e'"

\* char::is_whitespace, on the characters of the model
IsWhitespace(c) == c \in {" ", "\t", "\n", "\r"}

\* the UTF-8 length of a character
Utf8Len(c) == IF c = EAcute THEN 2 ELSE 1

\* all strings over alphabet A of length at most n
StringsUpTo(A, n) == UNION {[1..k -> A] : k \in 0..n}

RECURSIVE SumBytes(_)
SumBytes(s) == IF s = <<>> THEN 0 ELSE Utf8Len(Head(s)) + SumBytes(Tail(s))

RECURSIVE Flatten(_)
Flatten(ss) == IF ss = <<>> THEN <<>> ELSE Head(ss) \o Flatten(Tail(ss))

\* the length of the first line of s: through its first "\n", or all of s
LineEnd(s) ==
  IF \E i \in 1..Len(s) : s[i] = "\n"
  THEN CHOOSE i \in 1..Len(s) : s[i] = "\n" /\ \A j \in 1..(i-1) : s[j] # "\n"
  ELSE Len(s)

\* BufRead::read_line(&mut line): appends the next line of the stream,
\* terminator included, to line and returns the number of bytes read (0 at
\* the end of the stream); fails, appending nothing, when the bytes of the
\* line are not valid UTF-8.
read_line(file, line) ==
  LET k     == LineEnd(file)
      chunk == SubSeq(file, 1, k)
      rest  == SubSeq(file, k + 1, Len(file))
  IN  IF \E i \in 1..k : chunk[i] = Invalid
      THEN [err |-> TRUE,  bytes |-> 0, line |-> line, file |-> rest]
      ELSE [err |-> FALSE, bytes |-> SumBytes(chunk), line |-> line \o chunk,
            file |-> rest]

\* str::trim_end: the string without its trailing whitespace
RECURSIVE trim_end(_)
trim_end(s) ==
  IF s # <<>> /\ IsWhitespace(s[Len(s)])
  THEN trim_end(SubSeq(s, 1, Len(s) - 1))
  ELSE s

\* the decimal digits of a number
RECURSIVE Digits(_)
Digits(n) ==
  LET d == <<"0", "1", "2", "3", "4", "5", "6", "7", "8", "9">>[(n % 10) + 1]
  IN  IF n < 10 THEN <<d>> ELSE Digits(n \div 10) \o <<d>>

\* format!("{value:>width}"): right-justified, never truncated
RightJustify(s, width) ==
  IF Len(s) >= width THEN s ELSE [i \in 1..(width - Len(s)) |-> " "] \o s

----------------------------------------------------------------------------
(* The state of wcr *)

VARIABLES
  w_args,    \* Args: files (names), lines, words, bytes, chars
  w_fs,      \* the file each name denotes: opens (can it be opened), data
  w_stdin,   \* what is left to read of stdin
  w_pc,      \* position in main/run: "start", "loop", "exit"
  w_i,       \* the index in args.files of the next filename of the for loop
  w_info,    \* the result of count in the last iteration, if it was called
  w_total,   \* total_lines, total_words, total_bytes, total_chars
  w_stdout,  \* the lines written to stdout
  w_stderr,  \* the messages written to stderr
  w_exit     \* the exit status (0 while running)

wvars == <<w_args, w_fs, w_stdin, w_pc, w_i, w_info, w_total, w_stdout,
           w_stderr, w_exit>>

----------------------------------------------------------------------------
(* The state of grepr *)

VARIABLES
  g_args,     \* Args: pattern, files, insensitive, recursive, count, invert
  g_fs,       \* the file system: the node (kind, data) at each path
  g_stdin,    \* what is left to read of stdin
  g_rev,      \* the order in which a directory lists its entries
  g_pc,       \* position in main/run: "start", "loop", "exit"
  g_entries,  \* entries, the result of find_files
  g_i,        \* the index in entries of the next entry of the for loop
  g_last,     \* the result of find_lines in the last iteration, if called
  g_stdout,   \* the lines written to stdout
  g_stderr,   \* the messages written to stderr
  g_exit      \* the exit status (0 while running)

gvars == <<g_args, g_fs, g_stdin, g_rev, g_pc, g_entries, g_i, g_last,
           g_stdout, g_stderr, g_exit>>

----------------------------------------------------------------------------
(* uniqr *)

VARIABLES
  u_args,      \* Args: in_file ("-" stdin, "in" a file, "missing" no file),
               \*       out_file ("-" stdout, "out" a file, "denied"), count
  u_src,       \* the content of the stream in_file names in the first run
  u_pc,        \* position in main/run: "open", "loop", "exit"
  u_file,      \* the unread rest of the input stream
  u_line,      \* line
  u_previous,  \* previous
  u_count,     \* count
  u_out,       \* the characters written to out_file
  u_stderr,    \* the messages main wrote to stderr
  u_exit,      \* the exit status (0 while running)
  u_pass,      \* 1: the tool's run; 2: a second run, fed the first's output
  u_out1       \* the output of the first run, in the second

uvars == <<u_args, u_src, u_pc, u_file, u_line, u_previous, u_count, u_out,
           u_stderr, u_exit, u_pass, u_out1>>

UAlphabet == {"a", " ", "\n", "\r", Invalid}

\* the spec's example: lines a, a, b, a
ExampleInput == <<"a", "\n", "a", "\n", "b", "\n", "a", "\n">>

UInputs == StringsUpTo(UAlphabet, MaxULen) \cup {ExampleInput}

UOutFixedInputs == {<<"a", "\n">>, <<>>}

\* the closure print: one record of the output
print(args, num, text) ==
  IF num > 0
  THEN IF args.count
       THEN RightJustify(Digits(num), 4) \o <<" ">> \o text
       ELSE text
  ELSE <<>>

\* line 50 without its trim_end calls
starts_new_run_untrimmed(line, previous) == line # previous

\* the test of line 50: does the line start a new run?
starts_new_run(line, previous) == trim_end(line) # trim_end(previous)

uniqrInit ==
  /\ \/ /\ u_args \in [in_file : {"-", "in"}, out_file : {"-"}, count : BOOLEAN]
        /\ u_src \in UInputs
     \/ /\ u_args \in [in_file : {"missing"}, out_file : {"-"}, count : BOOLEAN]
        /\ u_src = <<>>
     \/ /\ u_args \in [in_file : {"in"}, out_file : {"out", "denied"},
                        count : BOOLEAN]
        /\ u_src \in UOutFixedInputs
  /\ u_pc = "open"
  /\ u_file = <<>>
  /\ u_line = <<>>
  /\ u_previous = <<>>
  /\ u_count = 0
  /\ u_out = <<>>
  /\ u_stderr = <<>>
  /\ u_exit = 0
  /\ u_pass = 1
  /\ u_out1 = <<>>

\* run, lines 23-32: open the input, create the output, initialise
uniqr_open ==
  /\ UNCHANGED <<wvars, gvars>>
  /\ u_pc = "open"
  /\ IF u_args.in_file = "missing"
     THEN /\ u_stderr' = Append(u_stderr, <<"in_file", "open">>)
          /\ u_exit' = 1
          /\ u_pc' = "exit"
          /\ UNCHANGED u_file
     ELSE IF u_args.out_file = "denied"
     THEN /\ u_stderr' = Append(u_stderr, <<"out_file", "create">>)
          /\ u_exit' = 1
          /\ u_pc' = "exit"
          /\ UNCHANGED u_file
     ELSE /\ u_file' = IF u_pass = 2 THEN u_out1 ELSE u_src
          /\ u_pc' = "loop"
          /\ UNCHANGED <<u_stderr, u_exit>>
  /\ UNCHANGED <<u_args, u_src, u_line, u_previous, u_count, u_out, u_pass,
                 u_out1>>

\* run, lines 44-59: one iteration of the loop; at the end of the stream
\* lines 61-64 and main
uniqr_loop ==
  /\ UNCHANGED <<wvars, gvars>>
  /\ u_pc = "loop"
  /\ LET r == read_line(u_file, u_line) IN
       IF r.err
       THEN \* line 45: the ? returns the error; main reports it
            /\ u_stderr' = Append(u_stderr, <<"in_file", "read">>)
            /\ u_exit' = 1
            /\ u_pc' = "exit"
            /\ u_file' = r.file
            /\ UNCHANGED <<u_line, u_previous, u_count, u_out>>
       ELSE IF r.bytes = 0
       THEN \* lines 46-48, 61-64
            /\ u_out' = IF u_count > 0
                        THEN u_out \o print(u_args, u_count, u_previous)
                        ELSE u_out
            /\ u_pc' = "exit"
            /\ UNCHANGED <<u_file, u_line, u_previous, u_count, u_stderr,
                           u_exit>>
       ELSE \* lines 50-58
            /\ u_file' = r.file
            /\ IF starts_new_run(r.line, u_previous)
               THEN /\ u_out' = IF u_count > 0
                                THEN u_out \o print(u_args, u_count, u_previous)
                                ELSE u_out
                    /\ u_previous' = r.line
                    /\ u_count' = 1
               ELSE /\ u_count' = u_count + 1
                    /\ UNCHANGED <<u_out, u_previous>>
            /\ u_line' = <<>>
            /\ UNCHANGED <<u_pc, u_stderr, u_exit>>
  /\ UNCHANGED <<u_args, u_src, u_pass, u_out1>>

\* the shell pipeline uniqr | uniqr: the second run reads what the first,
\* run without -c and without OUT_FILE, wrote to stdout
uniqr_pipe ==
  /\ UNCHANGED <<wvars, gvars>>
  /\ u_pc = "exit"
  /\ u_exit = 0
  /\ u_pass = 1
  /\ ~u_args.count
  /\ u_args.out_file = "-"
  /\ u_pass' = 2
  /\ u_out1' = u_out
  /\ u_args' = [u_args EXCEPT !.in_file = "-"]
  /\ UNCHANGED u_src
  /\ u_pc' = "open"
  /\ u_file' = <<>>
  /\ u_line' = <<>>
  /\ u_previous' = <<>>
  /\ u_count' = 0
  /\ u_out' = <<>>
  /\ UNCHANGED <<u_stderr, u_exit>>

uniqrNext == uniqr_open \/ uniqr_loop \/ uniqr_pipe

\* uniqr is not run
uniqrIdle ==
  /\ u_args = [in_file |-> "-", out_file |-> "-", count |-> FALSE]
  /\ u_src = <<>>
  /\ u_pc = "idle"
  /\ u_file = <<>>
  /\ u_line = <<>>
  /\ u_previous = <<>>
  /\ u_count = 0
  /\ u_out = <<>>
  /\ u_stderr = <<>>
  /\ u_exit = 0
  /\ u_pass = 1
  /\ u_out1 = <<>>

----------------------------------------------------------------------------
(* wcr *)

WAlphabet == {"a", " ", "\n", EAcute, Invalid}

\* the text of tests::test_count
TestText ==
  << "I", " ", "d", "o", "n", "'", "t", " ", "w", "a", "n", "t", " ",
     "t", "h", "e", " ", "w", "o", "r", "d", ".", "\n",
     "I", " ", "j", "u", "s", "t", " ", "w", "a", "n", "t", " ",
     "y", "o", "u", "r", " ", "h", "a", "l", "f", ".", "\r", "\n" >>

WContents == StringsUpTo(WAlphabet, MaxWLen) \cup {TestText}

\* the sources of the runs on several files: stdin, a name that cannot be
\* opened, an empty file, a file of two lines, a file that is not UTF-8
WNames == {"-", "missing", "empty", "two", "bad"}

WStdin == <<"a", " ", "a", "\n">>

WFiles ==
  [n \in (WNames \ {"-"}) \cup {"f"} |->
     CASE n = "f"       -> [opens |-> TRUE,  data |-> <<"a", "\n">>]
       [] n = "missing" -> [opens |-> FALSE, data |-> <<>>]
       [] n = "empty"   -> [opens |-> TRUE,  data |-> <<>>]
       [] n = "two"     -> [opens |-> TRUE,  data |-> <<"a", " ", EAcute, "\n", "a">>]
       [] n = "bad"     -> [opens |-> TRUE,  data |-> <<"a", "\n", Invalid, "\n">>] ]

ZeroInfo == [num_lines |-> 0, num_words |-> 0, num_bytes |-> 0, num_chars |-> 0]

\* line.split_whitespace().count(): scan the line, counting the starts of
\* the maximal pieces without whitespace
RECURSIVE split_whitespace_count(_, _)
split_whitespace_count(line, in_word) ==
  IF line = <<>> THEN 0
  ELSE IF IsWhitespace(Head(line))
       THEN split_whitespace_count(Tail(line), FALSE)
       ELSE (IF in_word THEN 0 ELSE 1) + split_whitespace_count(Tail(line), TRUE)

\* line 67 with the words taken as the pieces between single spaces
line_words_by_spaces(line) ==
  Cardinality({i \in 1..Len(line) : line[i] = " "}) + 1

\* line 67: the words of a line
line_words(line) == split_whitespace_count(line, FALSE)

\* line 68: line.chars().count()
line_chars(line) == Len(line)

\* count, lines 60-70: the loop, from the unread rest of the file and the
\* counts so far
RECURSIVE count_loop(_, _)
count_loop(file, info) ==
  LET r == read_line(file, <<>>) IN
    IF r.err THEN [ok |-> FALSE, info |-> ZeroInfo]
    ELSE IF r.bytes = 0 THEN [ok |-> TRUE, info |-> info]
    ELSE count_loop(r.file,
           [num_bytes |-> info.num_bytes + r.bytes,
            num_lines |-> info.num_lines + 1,
            num_words |-> info.num_words + line_words(r.line),
            num_chars |-> info.num_chars + line_chars(r.line)])

\* count: Ok(FileInfo), or the error of a read
count(file) == count_loop(file, ZeroInfo)

format_field(value, show) ==
  IF show THEN RightJustify(Digits(value), 8) ELSE <<>>

\* open: stdin, whatever is left of it, or File::open
open(fs, stdin, filename) ==
  IF filename = "-" THEN [opens |-> TRUE, data |-> stdin] ELSE fs[filename]

\* lines 108-119: the line of one file
file_line(args, info, filename) ==
  format_field(info.num_lines, args.lines)
  \o format_field(info.num_words, args.words)
  \o format_field(info.num_bytes, args.bytes)
  \o format_field(info.num_chars, args.chars)
  \o (IF filename = "-" THEN <<>> ELSE <<" ", filename>>)

\* lines 128-134: the line of the totals
total_line(args, total) ==
  format_field(total.num_lines, args.lines)
  \o format_field(total.num_words, args.words)
  \o format_field(total.num_bytes, args.bytes)
  \o format_field(total.num_chars, args.chars)
  \o <<" total">>

\* line 127: is the line of the totals printed?
prints_total(args) == Len(args.files) > 1

wcrInit ==
  /\ \/ /\ w_fs \in {[WFiles EXCEPT !["f"].data = d] : d \in WContents}
        /\ w_args \in [files : {<<"f">>}, lines : BOOLEAN, words : BOOLEAN,
                        bytes : BOOLEAN, chars : BOOLEAN]
     \/ /\ w_fs = WFiles
        /\ w_args \in [files : UNION {[1..n -> WNames] : n \in 1..MaxWFiles},
                        lines : BOOLEAN, words : BOOLEAN,
                        bytes : BOOLEAN, chars : BOOLEAN]
  /\ ~(w_args.bytes /\ w_args.chars)    \* line 49: conflicts_with("bytes")
  /\ w_stdin = WStdin
  /\ w_pc = "start"
  /\ w_i = 1
  /\ w_info = [state |-> "none", info |-> ZeroInfo]
  /\ w_total = ZeroInfo
  /\ w_stdout = <<>>
  /\ w_stderr = <<>>
  /\ w_exit = 0

\* run, lines 89-101: the default fields, the totals
wcr_run_start ==
  /\ UNCHANGED <<uvars, gvars>>
  /\ w_pc = "start"
  /\ w_args' = IF ~w_args.words /\ ~w_args.bytes /\ ~w_args.chars /\ ~w_args.lines
               THEN [w_args EXCEPT !.lines = TRUE, !.words = TRUE, !.bytes = TRUE]
               ELSE w_args
  /\ w_total' = ZeroInfo
  /\ w_i' = 1
  /\ w_pc' = "loop"
  /\ UNCHANGED <<w_fs, w_stdin, w_info, w_stdout, w_stderr, w_exit>>

\* run, lines 103-126: one iteration of the for loop
wcr_run_file ==
  /\ UNCHANGED <<uvars, gvars>>
  /\ w_pc = "loop"
  /\ w_i <= Len(w_args.files)
  /\ LET filename == w_args.files[w_i]
         f == open(w_fs, w_stdin, filename)
         c == count(f.data)
     IN  IF ~f.opens
         THEN \* line 105
              /\ w_stderr' = Append(w_stderr, <<filename, "open">>)
              /\ w_info' = [state |-> "none", info |-> ZeroInfo]
              /\ w_i' = w_i + 1
              /\ UNCHANGED <<w_total, w_stdout, w_pc, w_exit, w_stdin>>
         ELSE IF ~c.ok
         THEN \* line 107: the ? returns the error from run; main, 147-150
              /\ w_info' = [state |-> "err", info |-> ZeroInfo]
              /\ w_stderr' = Append(w_stderr, <<"", "read">>)
              /\ w_exit' = 1
              /\ w_pc' = "exit"
              /\ w_stdin' = IF filename = "-" THEN <<>> ELSE w_stdin
              /\ UNCHANGED <<w_total, w_stdout, w_i>>
         ELSE \* lines 108-123; count has read the stream to its end
              /\ w_stdin' = IF filename = "-" THEN <<>> ELSE w_stdin
              /\ w_info' = [state |-> "ok", info |-> c.info]
              /\ w_stdout' = Append(w_stdout, file_line(w_args, c.info, filename))
              /\ w_total' =
                   [num_lines |-> w_total.num_lines + c.info.num_lines,
                    num_words |-> w_total.num_words + c.info.num_words,
                    num_bytes |-> w_total.num_bytes + c.info.num_bytes,
                    num_chars |-> w_total.num_chars + c.info.num_chars]
              /\ w_i' = w_i + 1
              /\ UNCHANGED <<w_stderr, w_pc, w_exit>>
  /\ UNCHANGED <<w_args, w_fs>>

\* run, lines 127-136, after the loop; main
wcr_run_total ==
  /\ UNCHANGED <<uvars, gvars>>
  /\ w_pc = "loop"
  /\ w_i > Len(w_args.files)
  /\ w_stdout' = IF prints_total(w_args)
                 THEN Append(w_stdout, total_line(w_args, w_total))
                 ELSE w_stdout
  /\ w_pc' = "exit"
  /\ UNCHANGED <<w_args, w_fs, w_stdin, w_i, w_info, w_total, w_stderr,
                 w_exit>>

wcrNext == wcr_run_start \/ wcr_run_file \/ wcr_run_total

\* wcr is not run
wcrIdle ==
  /\ w_args = [files |-> <<>>, lines |-> FALSE, words |-> FALSE,
               bytes |-> FALSE, chars |-> FALSE]
  /\ w_fs = <<>>
  /\ w_stdin = <<>>
  /\ w_pc = "idle"
  /\ w_i = 1
  /\ w_info = [state |-> "none", info |-> ZeroInfo]
  /\ w_total = ZeroInfo
  /\ w_stdout = <<>>
  /\ w_stderr = <<>>
  /\ w_exit = 0

----------------------------------------------------------------------------
(* grepr *)

GAlphabet == {"a", "b", "\n", Invalid}

\* the patterns of the runs: literals, the wildcard, the empty pattern, and
\* an unclosed group, which is not a regular expression
Patterns ==
  { <<>>, <<"a">>, <<"A">>, <<"b">>, <<"a", "b">>, <<".">>, <<"b", ".">>,
    <<"(">> }

\* RegexBuilder::build: does the pattern compile?
compiles(pattern) == \A i \in 1..Len(pattern) : pattern[i] # "("

Lower(c) == IF c = "A" THEN "a" ELSE c

\* one character of a pattern against one of a line
char_matches(pc, insensitive, c) ==
  IF pc = "." THEN c # "\n"
  ELSE IF insensitive THEN Lower(pc) = Lower(c) ELSE pc = c

\* Regex::is_match: the pattern matches somewhere in the line
is_match(pattern, insensitive, line) ==
  \E k \in 0..Len(line) :
    /\ k + Len(pattern) <= Len(line)
    /\ \A j \in 1..Len(pattern) :
          char_matches(pattern[j], insensitive, line[k + j])

\* line 75 without the invert flag
selects_ignoring_invert(matched, invert) == matched

\* line 75: pattern.is_match(&line) ^ invert
selects(matched, invert) == matched # invert

\* find_lines, lines 69-79: the loop, from the unread rest of the file, the
\* buffer line and the matches so far
RECURSIVE find_lines_loop(_, _, _, _, _, _)
find_lines_loop(file, line, matches, pattern, insensitive, invert) ==
  LET r == read_line(file, line) IN
    IF r.err THEN [ok |-> FALSE, matches |-> <<>>]
    ELSE IF r.bytes = 0 THEN [ok |-> TRUE, matches |-> matches]
    ELSE IF selects(is_match(pattern, insensitive, r.line), invert)
         THEN \* mem::take leaves line empty
              find_lines_loop(r.file, <<>>, Append(matches, r.line),
                              pattern, insensitive, invert)
         ELSE \* line.clear()
              find_lines_loop(r.file, <<>>, matches,
                              pattern, insensitive, invert)

\* find_lines: Ok(matches), or the error of a read
find_lines(file, pattern, insensitive, invert) ==
  find_lines_loop(file, <<>>, <<>>, pattern, insensitive, invert)

\* the paths of the file system, "-" aside
GPaths == {"f", "d", "d/x", "d/s", "d/s/y"}

\* the entries of a directory, in one of the orders it may list them
dir_entries(path) ==
  IF path = "d" THEN <<"d/s", "d/x">>
  ELSE IF path = "d/s" THEN <<"d/s/y">>
  ELSE <<>>

Reverse(q) == [i \in 1..Len(q) |-> q[Len(q) + 1 - i]]

GoodData == <<"a", "\n", "b", "\n">>

BadData == <<"a", "\n", Invalid>>

Node(kind, data) == [kind |-> kind, data |-> data]

\* the kinds of node: "absent"; "file", a regular file; "filenr", a regular
\* file that cannot be opened; "dir"; "dirnr", a directory whose entries
\* cannot be listed; "other", a fifo, a socket, a device or, inside a
\* walk, a symbolic link
FileNodes == {Node("file", GoodData), Node("file", BadData)}

Absent == Node("absent", <<>>)

Tree(f, d, x, s, y) ==
  [p \in GPaths |->
     CASE p = "f"     -> f
       [] p = "d"     -> d
       [] p = "d/x"   -> x
       [] p = "d/s"   -> s
       [] p = "d/s/y" -> y ]

\* the file systems of the runs on several paths
GTrees ==
  { Tree(f, d, x, s, y) :
      f \in FileNodes \cup {Absent, Node("filenr", <<>>), Node("other", <<>>)},
      d \in {Node("dir", <<>>), Node("dirnr", <<>>)},
      x \in FileNodes \cup {Absent, Node("other", <<>>)},
      s \in {Absent, Node("dir", <<>>), Node("dirnr", <<>>)},
      y \in {Absent, Node("file", GoodData), Node("other", <<>>)} }

\* WalkDir::new(path).into_iter(): the entry of path, then, depth first,
\* those beneath it; an error in place of the entries of a directory that
\* cannot be listed
RECURSIVE walk_dir(_, _, _)
walk_dir(fs, rev, path) ==
  LET listed == IF rev THEN Reverse(dir_entries(path)) ELSE dir_entries(path)
      kids   == SelectSeq(listed, LAMBDA q : fs[q].kind # "absent")
  IN  CASE fs[path].kind = "dir" ->
             <<[ok |-> TRUE, path |-> path, is_file |-> FALSE]>>
             \o Flatten([i \in 1..Len(kids) |-> walk_dir(fs, rev, kids[i])])
        [] fs[path].kind = "dirnr" ->
             << [ok |-> TRUE,  path |-> path, is_file |-> FALSE],
                [ok |-> FALSE, path |-> path, is_file |-> FALSE] >>
        [] OTHER ->
             <<[ok |-> TRUE, path |-> path,
                is_file |-> fs[path].kind \in {"file", "filenr"}]>>

Entry(ok, name, err) == [ok |-> ok, name |-> name, err |-> err]

\* lines 93-99 with a filter that drops the directories only
walked_files_not_dirs(fs, rev, path) ==
  LET found == SelectSeq(walk_dir(fs, rev, path),
                         LAMBDA e : e.ok /\ fs[e.path].kind \notin {"dir", "dirnr"})
  IN  [i \in 1..Len(found) |-> Entry(TRUE, found[i].path, "")]

\* lines 93-99: .flatten() drops the walk's errors, .filter keeps the
\* regular files
walked_files(fs, rev, path) ==
  LET found == SelectSeq(walk_dir(fs, rev, path),
                         LAMBDA e : e.ok /\ e.is_file)
  IN  [i \in 1..Len(found) |-> Entry(TRUE, found[i].path, "")]

\* find_files, lines 87-109: the entries of one path
find_files_path(fs, rev, path, recursive) ==
  IF path = "-" THEN <<Entry(TRUE, path, "")>>
  ELSE CASE fs[path].kind = "absent" -> <<Entry(FALSE, path, "metadata")>>
         [] fs[path].kind \in {"dir", "dirnr"} ->
              IF recursive THEN walked_files(fs, rev, path)
              ELSE <<Entry(FALSE, path, "is a directory")>>
         [] fs[path].kind \in {"file", "filenr"} -> <<Entry(TRUE, path, "")>>
         [] OTHER -> <<>>

\* find_files
find_files(fs, rev, paths, recursive) ==
  Flatten([i \in 1..Len(paths) |-> find_files_path(fs, rev, paths[i], recursive)])

\* open: stdin, or File::open
can_open(fs, filename) == filename = "-" \/ fs[filename].kind = "file"

\* the stream open returns: what is left of stdin, or the file
stream(fs, stdin, filename) == IF filename = "-" THEN stdin ELSE fs[filename].data

NoResult == [state |-> "none", matches |-> <<>>]

greprInit ==
  /\ \/ /\ g_fs \in { Tree(Node("file", data), Node("dir", <<>>), Absent, Absent,
                            Absent) : data \in StringsUpTo(GAlphabet, MaxGLen) }
        /\ g_args \in [pattern : Patterns, files : {<<"f">>},
                        insensitive : BOOLEAN, recursive : {FALSE},
                        count : {FALSE}, invert : BOOLEAN]
        /\ g_rev = FALSE
        /\ g_stdin = <<>>
     \/ /\ g_fs \in GTrees
        /\ g_stdin = GoodData
        /\ (g_fs["d/s"].kind = "absent" => g_fs["d/s/y"].kind = "absent")
        /\ g_args \in [pattern : {<<"a">>},
                        files : UNION {[1..n -> {"-", "f", "d"}] : n \in 1..MaxGFiles},
                        insensitive : {FALSE}, recursive : BOOLEAN,
                        count : BOOLEAN, invert : {FALSE}]
        /\ g_rev \in BOOLEAN
  /\ g_pc = "start"
  /\ g_entries = <<>>
  /\ g_i = 1
  /\ g_last = NoResult
  /\ g_stdout = <<>>
  /\ g_stderr = <<>>
  /\ g_exit = 0

\* run, lines 37-42: compile the pattern, find the files
grepr_run_start ==
  /\ UNCHANGED <<uvars, wvars>>
  /\ g_pc = "start"
  /\ IF ~compiles(g_args.pattern)
     THEN \* line 40: the ? returns the error from run; main, lines 30-33
          /\ g_stderr' = Append(g_stderr, <<"", "Invalid pattern">>)
          /\ g_exit' = 1
          /\ g_pc' = "exit"
          /\ UNCHANGED g_entries
     ELSE /\ g_entries' = find_files(g_fs, g_rev, g_args.files, g_args.recursive)
          /\ g_pc' = "loop"
          /\ UNCHANGED <<g_stderr, g_exit>>
  /\ g_i' = 1
  /\ UNCHANGED <<g_args, g_fs, g_stdin, g_rev, g_last, g_stdout>>

\* run, lines 43-54: one iteration of the for loop
grepr_run_entry ==
  /\ UNCHANGED <<uvars, wvars>>
  /\ g_pc = "loop"
  /\ g_i <= Len(g_entries)
  /\ LET entry == g_entries[g_i] IN
       IF ~entry.ok
       THEN \* line 45
            /\ g_stderr' = Append(g_stderr, <<entry.name, entry.err>>)
            /\ g_last' = NoResult
            /\ UNCHANGED <<g_stdout, g_stdin>>
       ELSE IF ~can_open(g_fs, entry.name)
       THEN \* line 47
            /\ g_stderr' = Append(g_stderr, <<entry.name, "open">>)
            /\ g_last' = NoResult
            /\ UNCHANGED <<g_stdout, g_stdin>>
       ELSE \* lines 49-50; find_lines reads the stream to its end or to
            \* the first read that fails
            LET matches == find_lines(stream(g_fs, g_stdin, entry.name),
                                      g_args.pattern, g_args.insensitive,
                                      g_args.invert)
            IN  /\ g_stdin' = IF entry.name = "-" THEN <<>> ELSE g_stdin
                /\ g_last' = [state |-> IF matches.ok THEN "ok" ELSE "err",
                              matches |-> matches.matches]
                /\ g_stdout' = Append(g_stdout, [found |-> matches])
                /\ UNCHANGED g_stderr
  /\ g_i' = g_i + 1
  /\ UNCHANGED <<g_args, g_fs, g_rev, g_pc, g_entries, g_exit>>

\* run, line 55, after the loop; main
grepr_run_end ==
  /\ UNCHANGED <<uvars, wvars>>
  /\ g_pc = "loop"
  /\ g_i > Len(g_entries)
  /\ g_pc' = "exit"
  /\ UNCHANGED <<g_args, g_fs, g_stdin, g_rev, g_entries, g_i, g_last,
                 g_stdout, g_stderr, g_exit>>

greprNext == grepr_run_start \/ grepr_run_entry \/ grepr_run_end

\* grepr is not run
greprIdle ==
  /\ g_args = [pattern |-> <<>>, files |-> <<>>, insensitive |-> FALSE,
               recursive |-> FALSE, count |-> FALSE, invert |-> FALSE]
  /\ g_fs = <<>>
  /\ g_stdin = <<>>
  /\ g_rev = FALSE
  /\ g_pc = "idle"
  /\ g_entries = <<>>
  /\ g_i = 1
  /\ g_last = NoResult
  /\ g_stdout = <<>>
  /\ g_stderr = <<>>
  /\ g_exit = 0

----------------------------------------------------------------------------
(* The specifications: one tool is run *)

vars == <<uvars, wvars, gvars>>

InitUniq == uniqrInit /\ wcrIdle /\ greprIdle

SpecUniq == InitUniq /\ [][uniqrNext]_vars

InitWc == wcrInit /\ uniqrIdle /\ greprIdle

SpecWc == InitWc /\ [][wcrNext]_vars

InitGrep == greprInit /\ uniqrIdle /\ wcrIdle

SpecGrep == InitGrep /\ [][greprNext]_vars

----------------------------------------------------------------------------
(* uniqr: what the specification says of it *)

\* the lines of a stream, each with its terminator
RECURSIVE Lines(_)
Lines(s) ==
  IF s = <<>> THEN <<>>
  ELSE <<SubSeq(s, 1, LineEnd(s))>> \o Lines(SubSeq(s, LineEnd(s) + 1, Len(s)))

\* a line without its trailing line-terminator characters
RECURSIVE StripTerminator(_)
StripTerminator(s) ==
  IF s # <<>> /\ s[Len(s)] \in {"\n", "\r"}
  THEN StripTerminator(SubSeq(s, 1, Len(s) - 1))
  ELSE s

\* the glossary's trimmed equality
TrimmedEqual(a, b) == StripTerminator(a) = StripTerminator(b)

\* the maximal runs of consecutive trimmed-equal lines: the first line of
\* each and its length
RECURSIVE RunsOf(_)
RunsOf(lines) ==
  IF lines = <<>> THEN <<>>
  ELSE LET rest == RunsOf(Tail(lines)) IN
       IF Len(lines) > 1 /\ TrimmedEqual(lines[1], lines[2])
       THEN <<[text |-> lines[1], n |-> rest[1].n + 1]>> \o Tail(rest)
       ELSE <<[text |-> lines[1], n |-> 1]>> \o rest

\* the records of the runs as the tool writes them
RunRecords(lines, with_count) ==
  LET runs == RunsOf(lines) IN
  Flatten([i \in 1..Len(runs) |->
             IF with_count
             THEN RightJustify(Digits(runs[i].n), 4) \o <<" ">> \o runs[i].text
             ELSE runs[i].text])

\* the first run of uniqr has ended without an error
UniqrFirstRunDone == u_pass = 1 /\ u_pc = "exit" /\ u_exit = 0

\* C1: when uniqr ends, what it wrote is one record per maximal run of
\* consecutive trimmed-equal input lines, in input order, each with the
\* text of the run's first line and, with -c, the run's length.
C1_OutputIsTheRuns ==
  UniqrFirstRunDone => u_out = RunRecords(Lines(u_src), u_args.count)

\* C3: a line read while a run is active joins that run exactly when its
\* text and the run's text are equal after removing only their trailing
\* line terminators.
C3_SameRunIffTerminatorStrippedEqual ==
  [][ ( /\ u_pc = "loop" /\ u_pc' = "loop"
        /\ u_count > 0 /\ u_previous # <<>> )
      => ( (u_count' = u_count + 1 /\ u_previous' = u_previous)
           <=> TrimmedEqual(Lines(u_file)[1], u_previous) ) ]_vars

\* C9: run on its own output (no -c), uniqr writes that output again; no
\* two adjacent lines of the first run's output are trimmed-equal.
C9_Idempotent ==
  /\ (u_pass = 2 /\ u_pc = "exit") => (u_exit = 0 /\ u_out = u_out1)
  /\ (UniqrFirstRunDone /\ ~u_args.count) =>
        \A i \in 1..(Len(Lines(u_out)) - 1) :
          ~TrimmedEqual(Lines(u_out)[i], Lines(u_out)[i + 1])

\* the second run has ended on an output of several lines that the first
\* run had shortened
C9_Witness ==
  /\ u_pass = 2 /\ u_pc = "exit" /\ u_exit = 0
  /\ Len(Lines(u_out)) >= 2
  /\ Len(u_out1) < Len(u_src)
  /\ u_out = u_out1

----------------------------------------------------------------------------
(* wcr: what the specification says of it *)

\* the counts of a stream, from the stream as a whole: its terminators and
\* a last line without one; its characters that are not whitespace and
\* follow whitespace or nothing; its bytes; its characters
StreamInfo(data) ==
  [num_lines |-> Cardinality({i \in 1..Len(data) : data[i] = "\n"})
                 + (IF data # <<>> /\ data[Len(data)] # "\n" THEN 1 ELSE 0),
   num_words |-> Cardinality({i \in 1..Len(data) :
                    /\ ~IsWhitespace(data[i])
                    /\ (i = 1 \/ IsWhitespace(data[i - 1]))}),
   num_bytes |-> Len(data) + Cardinality({i \in 1..Len(data) : data[i] = EAcute}),
   num_chars |-> Len(data)]

\* the stream the i-th source of wcr's command line is: stdin is read to
\* its end the first time it is named and is empty from then on
SourceData(i) ==
  IF w_args.files[i] = "-"
  THEN IF \E j \in 1..(i - 1) : w_args.files[j] = "-" THEN <<>> ELSE WStdin
  ELSE w_fs[w_args.files[i]].data

\* the data of the source of the last iteration of wcr's loop
LastData == SourceData(w_i - 1)

\* C5: the FileInfo count returns holds the number of lines read (a last
\* line without terminator is one), of whitespace-delimited words, of bytes
\* and of characters of the stream; all 0 for the empty stream, and
\* 2, 10, 47, 47 for the text of test_count.
C5_CountIsExact ==
  w_info.state = "ok" =>
    /\ w_info.info = StreamInfo(LastData)
    /\ LastData = <<>> => w_info.info = ZeroInfo
    /\ LastData = TestText =>
          w_info.info = [num_lines |-> 2, num_words |-> 10,
                         num_bytes |-> 47, num_chars |-> 47]

\* count has returned the FileInfo of the text of test_count
C5_Witness ==
  /\ w_info.state = "ok"
  /\ LastData = TestText
  /\ w_info.info.num_words = 10
  /\ w_info.info.num_bytes = 47

\* can the i-th source be opened and read to its end?
Countable(i) ==
  /\ w_args.files[i] = "-" \/ w_fs[w_args.files[i]].opens
  /\ \A k \in 1..Len(SourceData(i)) : SourceData(i)[k] # Invalid

\* the field-wise sum of the counts of the countable sources among the
\* first n
RECURSIVE SumCountable(_)
SumCountable(n) ==
  IF n = 0 THEN ZeroInfo
  ELSE LET rest == SumCountable(n - 1)
           info == StreamInfo(SourceData(n))
       IN  IF Countable(n)
           THEN [num_lines |-> rest.num_lines + info.num_lines,
                 num_words |-> rest.num_words + info.num_words,
                 num_bytes |-> rest.num_bytes + info.num_bytes,
                 num_chars |-> rest.num_chars + info.num_chars]
           ELSE rest

\* the last line of wcr's stdout is a line of totals
HasTotalLine ==
  /\ w_stdout # <<>>
  /\ w_stdout[Len(w_stdout)] # <<>>
  /\ w_stdout[Len(w_stdout)][Len(w_stdout[Len(w_stdout)])] = " total"

\* C2: when wcr ends, its loop has gone through every source (a source
\* whose open or read failed ended only its own iteration), and with
\* several sources the line of totals is printed.
C2_EverySourceProcessed ==
  w_pc = "exit" =>
    /\ \A i \in 1..Len(w_args.files) :
          i < w_i \/ (i = w_i /\ w_info.state = "err")
    /\ Len(w_args.files) > 1 => HasTotalLine

\* C6: when wcr ends, the line of totals is printed exactly when more than
\* one source was given, and its fields are the sums over the sources that
\* were opened and counted.
C6_TotalIsSumOfCounted ==
  w_pc = "exit" =>
    /\ HasTotalLine <=> Len(w_args.files) > 1
    /\ HasTotalLine =>
          w_stdout[Len(w_stdout)]
            = total_line(w_args, SumCountable(Len(w_args.files)))

----------------------------------------------------------------------------
(* grepr: what the specification says of it *)

\* the directory a path is an entry of ("" for a path of the command line)
GParent(q) ==
  CASE q = "d/x"   -> "d"
    [] q = "d/s"   -> "d"
    [] q = "d/s/y" -> "d/s"
    [] OTHER       -> ""

RECURSIVE Ancestors(_)
Ancestors(q) ==
  IF GParent(q) = "" THEN {} ELSE {GParent(q)} \cup Ancestors(GParent(q))

\* the regular files beneath a directory, at any depth
RegularFilesBeneath(p) ==
  {q \in GPaths : p \in Ancestors(q) /\ g_fs[q].kind \in {"file", "filenr"}}

\* those of them no directory that cannot be listed hides: every directory
\* from p down to the file can be listed
ListableFilesBeneath(p) ==
  {q \in RegularFilesBeneath(p) :
     \A a \in Ancestors(q) : (a = p \/ p \in Ancestors(a)) => g_fs[a].kind = "dir"}

\* the entries find_files is to return for one path, as a set, given the
\* files a recursive search of it is to find
ExpectedEntries(p, found) ==
  IF p = "-" THEN {Entry(TRUE, p, "")}
  ELSE CASE g_fs[p].kind = "absent" -> {Entry(FALSE, p, "metadata")}
         [] g_fs[p].kind \in {"dir", "dirnr"} ->
              IF g_args.recursive THEN {Entry(TRUE, q, "") : q \in found}
              ELSE {Entry(FALSE, p, "is a directory")}
         [] g_fs[p].kind \in {"file", "filenr"} -> {Entry(TRUE, p, "")}
         [] OTHER -> {}

\* the entries expected for the i-th path of the command line
ExpectedAt(i, listable_only) ==
  ExpectedEntries(g_args.files[i],
                  IF listable_only THEN ListableFilesBeneath(g_args.files[i])
                  ELSE RegularFilesBeneath(g_args.files[i]))

\* the number of entries expected for the paths before the i-th
RECURSIVE ExpectedBefore(_, _)
ExpectedBefore(i, listable_only) ==
  IF i <= 1 THEN 0
  ELSE ExpectedBefore(i - 1, listable_only)
       + Cardinality(ExpectedAt(i - 1, listable_only))

\* entries is, path after path of the command line, the expected entries of
\* that path, each once, in some order, and nothing else
EntriesAreExpected(listable_only) ==
  /\ Len(g_entries) = ExpectedBefore(Len(g_args.files) + 1, listable_only)
  /\ \A i \in 1..Len(g_args.files) :
        LET off == ExpectedBefore(i, listable_only)
            n   == Cardinality(ExpectedAt(i, listable_only))
        IN  {g_entries[k] : k \in (off + 1)..(off + n)}
              = ExpectedAt(i, listable_only)

\* find_files has returned
FilesFound == g_pc \in {"loop", "exit"} /\ compiles(g_args.pattern)

LastStream ==
  IF g_entries[g_i - 1].name = "-"
  THEN IF \E j \in 1..(g_i - 2) : g_entries[j].name = "-" THEN <<>> ELSE GoodData
  ELSE g_fs[g_entries[g_i - 1].name].data

\* C7: the list find_lines returns holds, in the order of the input and
\* whole, exactly the lines that the pattern matches, or with invert those
\* it does not match, each line judged alone.
C7_SelectedIffMatchXorInvert ==
  g_last.state = "ok" =>
    g_last.matches =
      SelectSeq(Lines(LastStream),
                LAMBDA l :
                  LET m == is_match(g_args.pattern, g_args.insensitive, l)
                  IN  (m /\ ~g_args.invert) \/ (~m /\ g_args.invert))

\* find_lines, inverted, has returned some of the lines of a stream and
\* left out others, among them one that follows a selected line
C7_Witness ==
  /\ g_last.state = "ok"
  /\ g_args.invert
  /\ Len(g_last.matches) >= 1
  /\ Len(Lines(LastStream)) >= 3
  /\ g_last.matches[1] = Lines(LastStream)[1]
  /\ is_match(g_args.pattern, g_args.insensitive, Lines(LastStream)[2])

\* does the i-th path of the command line fail: it does not exist, cannot
\* be opened, or is a directory and the search is not recursive
FailsToOpen(i) ==
  LET p == g_args.files[i] IN
    /\ p # "-"
    /\ \/ g_fs[p].kind \in {"absent", "filenr"}
       \/ g_fs[p].kind \in {"dir", "dirnr"} /\ ~g_args.recursive

\* C4: grepr exits non-zero, with a message on stderr, exactly when the
\* pattern is invalid or every source it was given failed to open; in any
\* other case it exits zero.
C4_ExitStatus ==
  g_pc = "exit" =>
    /\ g_exit # 0 <=> ( \/ ~compiles(g_args.pattern)
                        \/ \A i \in 1..Len(g_args.files) : FailsToOpen(i) )
    /\ g_exit # 0 => g_stderr # <<>>

\* C10: nothing grepr writes to stdout describes an error: every line of
\* stdout is the result of a scan that succeeded.
C10_NoErrorOnStdout ==
  \A i \in 1..Len(g_stdout) : g_stdout[i].found.ok

=============================================================================
